---- MODULE Spec2Model ----
(***************************************************************************)
(* Board state machine of the falling-block engine (src/src/board.rs) and  *)
(* the game loop that drives it (src/src/main.rs).                         *)
(*                                                                         *)
(* Rows are indexed 0 (bottom) .. BOARD_HEIGHT-1 and columns 0 ..          *)
(* BOARD_WIDTH-1, as in the source; Rust arrays are functions over 0..n-1. *)
(* Board::simulate and Board::apply each carry their own copy of the       *)
(* bounds check, the gravity loop, the fit check, the placement and the    *)
(* row removal; the model keeps the two copies apart (Sim..., Apply...).   *)
(***************************************************************************)
EXTENDS Integers, Sequences, FiniteSets, TLC

BOARD_HEIGHT == 15
BOARD_WIDTH == 10

Rows == 0 .. (BOARD_HEIGHT - 1)
Cols == 0 .. (BOARD_WIDTH - 1)

NoColor == 7    \* Option<u8>::None; Some(c) is the tag c in 0 .. 6

Max(set) == CHOOSE m \in set : \A n \in set : n <= m
Min(set) == CHOOSE m \in set : \A n \in set : m <= n
Abs(n) == IF n < 0 THEN 0 - n ELSE n
Contains(seq, v) == \E k \in 1 .. Len(seq) : seq[k] = v

\* sum of f[k] for k in lo .. hi
RECURSIVE SumRange(_, _, _)
SumRange(f, lo, hi) == IF lo > hi THEN 0 ELSE f[lo] + SumRange(f, lo + 1, hi)

SumRows(f) == SumRange(f, 0, BOARD_HEIGHT - 1)
SumCols(f) == SumRange(f, 0, BOARD_WIDTH - 1)

(***************************************************************************)
(* Piece geometry.  PieceType discriminants in the order main.rs and       *)
(* draw_colored use them.  A rotation is a tight bounding box: shape[i][j] *)
(* for the row offset i (counted upwards from the resting row) and the     *)
(* column offset j, with its width and height.                             *)
(* board.rs imports the table from crate::piece (board.rs:3); that file is *)
(* not among the sources, so the shapes are those of the documented piece  *)
(* set.                                                                    *)
(***************************************************************************)
PieceI == 0
PieceT == 1
PieceO == 2
PieceJ == 3
PieceL == 4
PieceS == 5
PieceZ == 6

PieceTypes == PieceI .. PieceZ
RotationIdx == 0 .. 3

Shape(rows) ==
    [shape  |-> [i \in 0 .. 3 |-> [j \in 0 .. 3 |->
                    IF i < Len(rows) /\ j < Len(rows[1]) THEN rows[i + 1][j + 1] ELSE 0]],
     width  |-> Len(rows[1]),
     height |-> Len(rows)]

ROTATIONS ==
    LET Ih == Shape(<< <<1, 1, 1, 1>> >>)
        Iv == Shape(<< <<1>>, <<1>>, <<1>>, <<1>> >>)
        Oo == Shape(<< <<1, 1>>, <<1, 1>> >>)
        Sh == Shape(<< <<1, 1, 0>>, <<0, 1, 1>> >>)
        Sv == Shape(<< <<0, 1>>, <<1, 1>>, <<1, 0>> >>)
        Zh == Shape(<< <<0, 1, 1>>, <<1, 1, 0>> >>)
        Zv == Shape(<< <<1, 0>>, <<1, 1>>, <<0, 1>> >>)
    IN  [t \in PieceTypes |->
          CASE t = PieceI -> <<Ih, Iv, Ih, Iv>>
            [] t = PieceT -> << Shape(<< <<1, 1, 1>>, <<0, 1, 0>> >>),
                                Shape(<< <<1, 0>>, <<1, 1>>, <<1, 0>> >>),
                                Shape(<< <<0, 1, 0>>, <<1, 1, 1>> >>),
                                Shape(<< <<0, 1>>, <<1, 1>>, <<0, 1>> >>) >>
            [] t = PieceO -> <<Oo, Oo, Oo, Oo>>
            [] t = PieceJ -> << Shape(<< <<1, 1, 1>>, <<1, 0, 0>> >>),
                                Shape(<< <<1, 0>>, <<1, 0>>, <<1, 1>> >>),
                                Shape(<< <<0, 0, 1>>, <<1, 1, 1>> >>),
                                Shape(<< <<1, 1>>, <<0, 1>>, <<0, 1>> >>) >>
            [] t = PieceL -> << Shape(<< <<1, 1, 1>>, <<0, 0, 1>> >>),
                                Shape(<< <<1, 1>>, <<1, 0>>, <<1, 0>> >>),
                                Shape(<< <<1, 0, 0>>, <<1, 1, 1>> >>),
                                Shape(<< <<0, 1>>, <<0, 1>>, <<1, 1>> >>) >>
            [] t = PieceS -> <<Sh, Sv, Sh, Sv>>
            [] t = PieceZ -> <<Zh, Zv, Zh, Zv>>]

\* &ROTATIONS[piece_type as usize][rotate]
Piece(piece_type, rotate) == ROTATIONS[piece_type][rotate + 1]

\* the <<i, j>> with shape[i][j] != 0, for i in 0..height and j in 0..width
ShapeCells(piece) ==
    {c \in (0 .. (piece.height - 1)) \X (0 .. (piece.width - 1)) : piece.shape[c[1]][c[2]] # 0}

(***************************************************************************)
(* Board::new                                                              *)
(***************************************************************************)
EmptyGrid == [y \in Rows |-> [x \in Cols |-> FALSE]]
EmptyColorGrid == [y \in Rows |-> [x \in Cols |-> NoColor]]

BoardNew ==
    [grid |-> EmptyGrid, color_grid |-> EmptyColorGrid,
     heights |-> [x \in Cols |-> 0], score |-> 0]

(***************************************************************************)
(* Board::apply                                                            *)
(***************************************************************************)
\* faulty variant of the bounds check: a piece touching the right wall is refused
ApplyOutOfBoundsAtWall(piece, x) == x + piece.width >= BOARD_WIDTH

\* "Check x boundaries"
ApplyOutOfBounds(piece, x) == x + piece.width > BOARD_WIDTH

\* faulty variant of the gravity loop: the piece rests on the highest column
\* under its bounding box, whatever its shape
ApplyRequiredYBox(heights, piece, x) ==
    Max({heights[x + dx] : dx \in 0 .. (piece.width - 1)})

\* "Calculate required y position"
ApplyRequiredY(heights, piece, x) ==
    LET Offsets(dx) == {i \in 0 .. (piece.height - 1) : piece.shape[i][dx] # 0}
        MaxIForDx(dx) == Max({0} \cup {heights[x + dx] - i : i \in Offsets(dx)})
    IN  Max({0} \cup {MaxIForDx(dx) : dx \in {d \in 0 .. (piece.width - 1) : Offsets(d) # {}}})

\* the cells <<y, col>> the fit loop visits for the resting row required_y
ApplyBlocks(piece, x, required_y) ==
    {<<required_y + c[1], x + c[2]>> : c \in ShapeCells(piece)}

\* "Check if piece fits": a cell is refused if y >= BOARD_HEIGHT || grid[y][col]
ApplyFits(grid, blocks) ==
    \A cell \in blocks : ~(cell[1] >= BOARD_HEIGHT \/ grid[cell[1]][cell[2]])

\* faulty variant of the placement: only the lowest cells of the piece are set
ApplyPlaceGridLowest(grid, blocks) ==
    [y \in Rows |-> [x \in Cols |->
        grid[y][x] \/ (<<y, x>> \in blocks /\ \A b \in blocks : b[1] >= y)]]

\* "Place the piece": grid, colour tags and the height cache
ApplyPlaceGrid(grid, blocks) ==
    [y \in Rows |-> [x \in Cols |-> grid[y][x] \/ <<y, x>> \in blocks]]

ApplyPlaceColor(color_grid, blocks, color) ==
    [y \in Rows |-> [x \in Cols |-> IF <<y, x>> \in blocks THEN color ELSE color_grid[y][x]]]

\* faulty variant of the height update: the lowest cell of the piece in a
\* column overwrites the cached height instead of max(y + 1)
ApplyPlaceHeightsFirst(heights, blocks) ==
    [x \in Cols |-> LET ys == {cell[1] : cell \in {b \in blocks : b[2] = x}}
                    IN  IF ys = {} THEN heights[x] ELSE Min(ys) + 1]

\* self.heights[col] = self.heights[col].max(y + 1)
ApplyPlaceHeights(heights, blocks) ==
    [x \in Cols |-> Max({heights[x]} \cup {cell[1] + 1 : cell \in {b \in blocks : b[2] = x}})]

\* "Check for full rows": the rows with every column set, in ascending order
RECURSIVE ApplyFullRowsFrom(_, _)
ApplyFullRowsFrom(grid, y) ==
    IF y >= BOARD_HEIGHT THEN <<>>
    ELSE (IF \A x \in Cols : grid[y][x] THEN <<y>> ELSE <<>>) \o ApplyFullRowsFrom(grid, y + 1)

\* faulty variant of the full-row scan: it stops at the first full row
ApplyFullRowsLowest(grid) ==
    LET all == ApplyFullRowsFrom(grid, 0)
    IN  IF all = <<>> THEN all ELSE <<all[1]>>

ApplyFullRows(grid) == ApplyFullRowsFrom(grid, 0)

\* "Clear full rows if any": rows are visited bottom-up, shift counts the
\* full rows met so far, a surviving row y is copied to y - shift together
\* with its colour tags.
RECURSIVE ApplyClearLoop(_, _, _, _, _, _)
ApplyClearLoop(y, shift, new, grid, color_grid, full_rows) ==
    IF y >= BOARD_HEIGHT THEN new
    ELSE IF Contains(full_rows, y)
         THEN ApplyClearLoop(y + 1, shift + 1, new, grid, color_grid, full_rows)
         ELSE LET new_y == y - shift
                  copied == IF new_y < BOARD_HEIGHT
                            THEN [grid       |-> [new.grid EXCEPT ![new_y] = grid[y]],
                                  color_grid |-> [new.color_grid EXCEPT ![new_y] = color_grid[y]]]
                            ELSE new
              IN  ApplyClearLoop(y + 1, shift, copied, grid, color_grid, full_rows)

\* faulty variant of the clear: full rows are blanked where they are and
\* nothing is moved
ApplyClearKeepOrder(grid, color_grid, full_rows) ==
    LET kept == [y \in Rows |-> IF Contains(full_rows, y) THEN EmptyGrid[0] ELSE grid[y]]
        keptc == [y \in Rows |-> IF Contains(full_rows, y) THEN EmptyColorGrid[0] ELSE color_grid[y]]
    IN  [grid |-> kept, color_grid |-> keptc]

\* faulty variant of the clear: the rows of the grid move, the colour tags
\* stay where they were
ApplyClearGridOnly(grid, color_grid, full_rows) ==
    [grid |-> ApplyClearLoop(0, 0, [grid |-> EmptyGrid, color_grid |-> EmptyColorGrid],
                             grid, color_grid, full_rows).grid,
     color_grid |-> color_grid]

\* new_grid and new_color_grid start empty and the loop runs over every row
ApplyClear(grid, color_grid, full_rows) ==
    ApplyClearLoop(0, 0, [grid |-> EmptyGrid, color_grid |-> EmptyColorGrid],
                   grid, color_grid, full_rows)

\* faulty variant of the recalculation: the heights are reset and not scanned
ApplyRecalcHeightsReset(grid) == [x \in Cols |-> 0]

\* "Recalculate heights": scan each column top-down for its highest set cell
RECURSIVE ApplyScanDown(_, _, _)
ApplyScanDown(grid, x, y) ==
    IF y < 0 THEN 0 ELSE IF grid[y][x] THEN y + 1 ELSE ApplyScanDown(grid, x, y - 1)

ApplyRecalcHeights(grid) == [x \in Cols |-> ApplyScanDown(grid, x, BOARD_HEIGHT - 1)]

\* faulty variant of the bonus: 100 per row
AddScorePerRow(n) == 100 * n

\* faulty variant of the bonus: 50 per row
AddScoreHalf(n) == 50 * n

\* "Update score"

AddScore(n) ==
    CASE n = 1 -> 100
      [] n = 2 -> 300
      [] n = 3 -> 500
      [] n = 4 -> 800
      [] OTHER -> 0

\* faulty variant of the error return: the cells visited by the fit loop
\* have been written to the grid before the error is returned
ApplyErrPartial(b, blocks, err) ==
    [ok |-> FALSE, err |-> err, full_rows |-> <<>>, blocks |-> {},
     board |-> [b EXCEPT !.grid = [y \in Rows |-> [x \in Cols |->
                    b.grid[y][x] \/ (<<y, x>> \in blocks /\ y < BOARD_HEIGHT)]]]]

\* return Err(...): taken before anything is written
ApplyErr(b, blocks, err) ==
    [ok |-> FALSE, err |-> err, full_rows |-> <<>>, blocks |-> {}, board |-> b]

\* the rest of apply once the piece fits: place, find full rows, clear, score
ApplyPlaced(b, piece_type, blocks) ==
    LET grid1     == ApplyPlaceGrid(b.grid, blocks)
        color1    == ApplyPlaceColor(b.color_grid, blocks, piece_type)
        heights1  == ApplyPlaceHeights(b.heights, blocks)
        full_rows == ApplyFullRows(grid1)
    IN  IF full_rows = <<>>
        THEN [ok |-> TRUE, err |-> "", full_rows |-> full_rows, blocks |-> blocks,
              board |-> [grid |-> grid1, color_grid |-> color1,
                         heights |-> heights1, score |-> b.score]]
        ELSE LET new == ApplyClear(grid1, color1, full_rows)
             IN  [ok |-> TRUE, err |-> "", full_rows |-> full_rows, blocks |-> blocks,
                  board |-> [grid |-> new.grid, color_grid |-> new.color_grid,
                             heights |-> ApplyRecalcHeights(new.grid),
                             score |-> b.score + AddScore(Len(full_rows))]]

\* Board::apply(piece_type, x, rotate) on board b: the Result it returns
\* (ok, err), the board it leaves, the cells it filled and the rows it found full
BoardApply(b, piece_type, x, rotate) ==
    LET piece == Piece(piece_type, rotate)
    IN  IF ApplyOutOfBounds(piece, x) THEN ApplyErr(b, {}, "Piece out of bounds")
        ELSE LET blocks == ApplyBlocks(piece, x, ApplyRequiredY(b.heights, piece, x))
             IN  IF ~ApplyFits(b.grid, blocks) THEN ApplyErr(b, blocks, "Piece doesn't fit")
                 ELSE ApplyPlaced(b, piece_type, blocks)

(***************************************************************************)
(* Board::simulate                                                         *)
(***************************************************************************)
\* "Check x boundaries"
SimOutOfBounds(piece, x) == x + piece.width > BOARD_WIDTH

\* "Calculate required y position"
SimRequiredY(heights, piece, x) ==
    LET Offsets(dx) == {i \in 0 .. (piece.height - 1) : piece.shape[i][dx] # 0}
        MaxIForDx(dx) == Max({0} \cup {heights[x + dx] - i : i \in Offsets(dx)})
    IN  Max({0} \cup {MaxIForDx(dx) : dx \in {d \in 0 .. (piece.width - 1) : Offsets(d) # {}}})

SimBlocks(piece, x, required_y) ==
    {<<required_y + c[1], x + c[2]>> : c \in ShapeCells(piece)}

\* faulty variant of the fit test: a cell in row BOARD_HEIGHT is let through
SimFitsOffByOne(grid, blocks) ==
    \A cell \in blocks : ~(cell[1] > BOARD_HEIGHT
                            \/ (cell[1] < BOARD_HEIGHT /\ grid[cell[1]][cell[2]]))

\* "Check if piece fits": a cell is refused if y >= BOARD_HEIGHT || grid[y][col]
SimFits(grid, blocks) ==
    \A cell \in blocks : ~(cell[1] >= BOARD_HEIGHT \/ grid[cell[1]][cell[2]])

\* "Create temporary grid and heights", "Place the piece"
SimPlaceGrid(grid, blocks) ==
    [y \in Rows |-> [x \in Cols |-> grid[y][x] \/ <<y, x>> \in blocks]]

SimPlaceHeights(heights, blocks) ==
    [x \in Cols |-> Max({heights[x]} \cup {cell[1] + 1 : cell \in {b \in blocks : b[2] = x}})]

\* "Check for full rows"
RECURSIVE SimFullRowsFrom(_, _)
SimFullRowsFrom(grid, y) ==
    IF y >= BOARD_HEIGHT THEN <<>>
    ELSE (IF \A x \in Cols : grid[y][x] THEN <<y>> ELSE <<>>) \o SimFullRowsFrom(grid, y + 1)

SimFullRows(grid) == SimFullRowsFrom(grid, 0)

\* "Clear full rows if any": rows are visited top-down, shift counts the
\* full rows met so far (matched against full_rows from its end), a
\* surviving row y is copied to y + shift when that is a row of the board.
RECURSIVE SimClearLoop(_, _, _, _, _)
SimClearLoop(y, shift, new_grid, temp_grid, full_rows) ==
    IF y < 0 THEN new_grid
    ELSE IF shift < Len(full_rows) /\ y = full_rows[Len(full_rows) - shift]
         THEN SimClearLoop(y - 1, shift + 1, new_grid, temp_grid, full_rows)
         ELSE LET new_y == y + shift
                  copied == IF new_y < BOARD_HEIGHT
                            THEN [new_grid EXCEPT ![new_y] = temp_grid[y]]
                            ELSE new_grid
              IN  SimClearLoop(y - 1, shift, copied, temp_grid, full_rows)

SimClear(temp_grid, full_rows) ==
    SimClearLoop(BOARD_HEIGHT - 1, 0, EmptyGrid, temp_grid, full_rows)

\* "Recalculate heights"
RECURSIVE SimScanDown(_, _, _)
SimScanDown(grid, x, y) ==
    IF y < 0 THEN 0 ELSE IF grid[y][x] THEN y + 1 ELSE SimScanDown(grid, x, y - 1)

SimRecalcHeights(grid) == [x \in Cols |-> SimScanDown(grid, x, BOARD_HEIGHT - 1)]

(***************************************************************************)
(* "Calculate features", on the temporary grid and heights.                *)
(***************************************************************************)
\* 1. landing_height
LandingHeight(blocks) == IF blocks = {} THEN 0 ELSE Max({c[1] : c \in blocks})

\* faulty variant: the piece's cells in full rows, not multiplied by the rows
ErodedPieceCellsUnscaled(blocks, full_rows) ==
    Cardinality({c \in blocks : Contains(full_rows, c[1])})

\* 2. eroded_piece_cells
ErodedPieceCells(blocks, full_rows) ==
    Cardinality({c \in blocks : Contains(full_rows, c[1])}) * Len(full_rows)

\* 3. row_transitions: prev starts true, a change of state counts one, and
\* so does a row that ends on an empty cell
RECURSIVE RowScan(_, _, _)
RowScan(row, x, prev) ==
    IF x >= BOARD_WIDTH THEN (IF prev THEN 0 ELSE 1)
    ELSE (IF row[x] # prev THEN 1 ELSE 0) + RowScan(row, x + 1, row[x])

RowTransitions(g) == SumRows([y \in Rows |-> RowScan(g[y], 0, TRUE)])

\* 4. column_transitions: the same, bottom-up along each column
RECURSIVE ColumnScan(_, _, _, _)
ColumnScan(g, x, y, prev) ==
    IF y >= BOARD_HEIGHT THEN (IF prev THEN 0 ELSE 1)
    ELSE (IF g[y][x] # prev THEN 1 ELSE 0) + ColumnScan(g, x, y + 1, g[y][x])

ColumnTransitions(g) == SumCols([x \in Cols |-> ColumnScan(g, x, 0, TRUE)])

\* 5. holes: empty cells below the topmost set cell of their column
Holes(g) ==
    SumCols([x \in Cols |->
                LET top == SimScanDown(g, x, BOARD_HEIGHT - 1)
                IN  Cardinality({y \in 0 .. (top - 2) : ~g[y][x]})])

\* 6. board_wells
Wells(h) ==
    LET left(x)  == IF x > 0 THEN h[x - 1] ELSE h[x]
        right(x) == IF x < BOARD_WIDTH - 1 THEN h[x + 1] ELSE h[x]
    IN  SumCols([x \in Cols |-> IF h[x] < left(x) /\ h[x] < right(x)
                                 THEN Min({left(x), right(x)}) - h[x] ELSE 0])

\* 7. hole_depth
HoleDepth(g, h) ==
    SumCols([x \in Cols |->
                SumRange([y \in Rows |-> IF ~g[y][x] THEN h[x] - y ELSE 0], 0, h[x] - 1)])

\* 8. rows_with_holes
RowsWithHoles(g, h) ==
    Cardinality({y \in Rows : \E x \in Cols : ~g[y][x] /\ h[x] > y})

\* 9. diversity: (temp_heights[x] - prev_h) is a usize subtraction.  With
\* overflow checks it panics when temp_heights[x] < prev_h; without them it
\* wraps, and the low 32 bits of the wrapped difference, read as an i32, are
\* the signed difference, whose abs() is added.
DiversityUnderflows(h) == \E x \in 1 .. (BOARD_WIDTH - 1) : h[x] < h[x - 1]

Diversity(h) == SumCols([x \in Cols |-> IF x = 0 THEN 0 ELSE Abs(h[x] - h[x - 1])])

\* 10. RFB: exp(-(c - i*h/3)^2 / (2*(h/5)^2)) for i in 0..4, of the mean
\* height c; the model carries the sum of the heights they are computed from
HeightSum(h) == SumCols(h)

FEATURES == 13
IntFeatures == 0 .. 8     \* features[0] .. features[8], the integer-valued ones

(***************************************************************************)
(* Board::simulate(piece_type, x, rotate) on board b, up to the features:  *)
(* kind is "None", "Some" or "panic" (the arithmetic-overflow panic of a   *)
(* build with overflow checks); cleared is full_rows.len(); temp_grid and  *)
(* temp_heights are what the features are computed on.                     *)
(***************************************************************************)
SimPlaced(b, blocks, checks) ==
    LET grid1     == SimPlaceGrid(b.grid, blocks)
        heights1  == SimPlaceHeights(b.heights, blocks)
        full_rows == SimFullRows(grid1)
        temp_grid == IF full_rows = <<>> THEN grid1 ELSE SimClear(grid1, full_rows)
        temp_heights == IF full_rows = <<>> THEN heights1 ELSE SimRecalcHeights(temp_grid)
    IN  IF checks /\ DiversityUnderflows(temp_heights)
        THEN [kind |-> "panic"]
        ELSE [kind |-> "Some", cleared |-> Len(full_rows), blocks |-> blocks,
              full_rows |-> full_rows, temp_grid |-> temp_grid, temp_heights |-> temp_heights]

BoardSimulate(b, piece_type, x, rotate, checks) ==
    LET piece == Piece(piece_type, rotate)
    IN  IF SimOutOfBounds(piece, x) THEN [kind |-> "None"]
        ELSE LET blocks == SimBlocks(piece, x, SimRequiredY(b.heights, piece, x))
             IN  IF ~SimFits(b.grid, blocks) THEN [kind |-> "None"]
                 ELSE SimPlaced(b, blocks, checks)

\* features[i] of a Some result r, for i in IntFeatures
Feature(r, i) ==
    CASE i = 0 -> LandingHeight(r.blocks)
      [] i = 1 -> ErodedPieceCells(r.blocks, r.full_rows)
      [] i = 2 -> RowTransitions(r.temp_grid)
      [] i = 3 -> ColumnTransitions(r.temp_grid)
      [] i = 4 -> Holes(r.temp_grid)
      [] i = 5 -> Wells(r.temp_heights)
      [] i = 6 -> HoleDepth(r.temp_grid, r.temp_heights)
      [] i = 7 -> RowsWithHoles(r.temp_grid, r.temp_heights)
      [] i = 8 -> Diversity(r.temp_heights)

\* faulty variant of simulate: the piece is placed on the board itself
\* instead of on the clones
SimulateBoardInPlace(b, piece_type, x, rotate) ==
    LET piece == Piece(piece_type, rotate)
    IN  IF SimOutOfBounds(piece, x) THEN b
        ELSE LET blocks == SimBlocks(piece, x, SimRequiredY(b.heights, piece, x))
             IN  IF ~SimFits(b.grid, blocks) THEN b
                 ELSE [b EXCEPT !.grid = SimPlaceGrid(b.grid, blocks),
                                !.heights = SimPlaceHeights(b.heights, blocks)]

\* what simulate leaves of the board it is called on: it takes &self and
\* works on clones of grid and heights (temp_grid, temp_heights)
SimulateBoard(b, piece_type, x, rotate) == b

(***************************************************************************)
(* State.  The Board's four fields; the build profile (whether integer     *)
(* overflow panics); the caller: the piece types the random source may     *)
(* hand out at each coming draw, the scripted opening placements still to  *)
(* be made, the number of commits made after the opening, and what the     *)
(* last call was and returned; and the game loop: its weights and where it *)
(* stands.  session is the state of a check session (main.rs, check) and   *)
(* trainer the state of the training loop (main.rs, train); both are idle  *)
(* outside those commands.                                                 *)
(***************************************************************************)
VARIABLES grid, color_grid, heights, score, overflow_checks,
          opening, pieces, calls, last, weights, pc, session, trainer

boardVars == <<grid, color_grid, heights, score>>
vars == <<grid, color_grid, heights, score, overflow_checks,
          opening, pieces, calls, last, weights, pc, session, trainer>>

NoSession == [mode |-> "none"]
NoTrainer == [mode |-> "none"]

Board == [grid |-> grid, color_grid |-> color_grid, heights |-> heights, score |-> score]

MaxCalls == 1      \* commits a caller tries after its opening
MaxRepeat == 2     \* evaluations of one placement in a row

Rep(e, n) == [k \in 1 .. n |-> e]

\* Opening placements <<piece_type, x, rotate>> and the draws that follow.
OpenRow1  == << <<PieceI, 0, 0>>, <<PieceI, 4, 0>> >>
OpenRow2  == OpenRow1 \o OpenRow1
OpenRow3  == OpenRow2 \o OpenRow1 \o << <<PieceI, 8, 1>> >>
OpenRow4  == Rep(<<PieceO, 0, 0>>, 2) \o Rep(<<PieceO, 2, 0>>, 2) \o Rep(<<PieceO, 4, 0>>, 2)
             \o Rep(<<PieceO, 6, 0>>, 2) \o << <<PieceI, 8, 1>>, <<PieceT, 0, 0>> >>
OpenSplit == << <<PieceI, 0, 0>>, <<PieceI, 4, 0>>, <<PieceI, 8, 1>>, <<PieceI, 0, 0>>,
                <<PieceS, 4, 0>>, <<PieceI, 7, 1>>, <<PieceI, 0, 0>>, <<PieceI, 4, 1>> >>
OpenTall  == Rep(<<PieceI, 0, 1>>, 3) \o << <<PieceO, 0, 0>> >>
OpenClear == OpenRow1 \o << <<PieceO, 8, 0>> >>     \* completes row 0, two cells stay

Games ==
    { [opening |-> <<>>,      pieces |-> <<{PieceT}, {PieceJ}>>],
      [opening |-> <<>>,      pieces |-> <<{PieceS}, {PieceZ}>>],
      [opening |-> OpenRow1,  pieces |-> <<{PieceL}, {PieceO}>>],
      [opening |-> OpenRow2,  pieces |-> <<{PieceO}, {PieceJ}>>],
      [opening |-> OpenRow3,  pieces |-> <<{PieceI}, {PieceT}>>],
      [opening |-> OpenRow4,  pieces |-> <<{PieceI}, {PieceL}>>],
      [opening |-> OpenSplit, pieces |-> <<{PieceI}, {PieceS}>>],
      [opening |-> OpenTall,  pieces |-> <<{PieceZ}, {PieceI}>>],
      [opening |-> OpenClear, pieces |-> <<{PieceJ}, {PieceT}>>] }

ZeroWeights == [i \in 0 .. (FEATURES - 1) |-> 0]

Init ==
    /\ grid = BoardNew.grid
    /\ color_grid = BoardNew.color_grid
    /\ heights = BoardNew.heights
    /\ score = BoardNew.score
    /\ overflow_checks \in BOOLEAN
    /\ \E g \in Games : opening = g.opening /\ pieces = g.pieces
    /\ calls = 0
    /\ last = [op |-> "new"]
    /\ weights = ZeroWeights
    /\ pc = "caller"
    /\ session = NoSession
    /\ trainer = NoTrainer

\* The placements the caller may try now: the scripted one during the
\* opening, then any column and rotation for a piece the draw may give.
Inputs ==
    IF opening # <<>> THEN {Head(opening)}
    ELSE IF calls < MaxCalls /\ pieces # <<>>
         THEN Head(pieces) \X Cols \X RotationIdx
         ELSE {}

\* After its opening the caller evaluates a placement, possibly again, and
\* then tries to commit that placement, whatever the evaluation said.
Pending == last.op = "simulate"
SameAsLast(inp) == inp = <<last.piece_type, last.x, last.rotate>>

Apply(piece_type, x, rotate) ==
    /\ opening = <<>> => Pending /\ SameAsLast(<<piece_type, x, rotate>>)
    /\ \E r \in {BoardApply(Board, piece_type, x, rotate)} :
        /\ grid' = r.board.grid
        /\ color_grid' = r.board.color_grid
        /\ heights' = r.board.heights
        /\ score' = r.board.score
        /\ last' = [op |-> "apply", piece_type |-> piece_type, x |-> x, rotate |-> rotate,
                    ok |-> r.ok, err |-> r.err, full_rows |-> r.full_rows, blocks |-> r.blocks]
        /\ IF opening # <<>>
           THEN opening' = Tail(opening) /\ UNCHANGED <<pieces, calls>>
           ELSE /\ calls' = calls + 1
                /\ pieces' = IF r.ok THEN Tail(pieces) ELSE pieces
                /\ UNCHANGED opening
        /\ UNCHANGED <<overflow_checks, weights, pc, session, trainer>>

Simulate(piece_type, x, rotate) ==
    /\ opening = <<>>
    /\ Pending => SameAsLast(<<piece_type, x, rotate>>)
    /\ \E b \in {SimulateBoard(Board, piece_type, x, rotate)},
          nth \in {IF Pending THEN last.nth + 1 ELSE 1} :
        /\ nth <= MaxRepeat
        /\ grid' = b.grid
        /\ color_grid' = b.color_grid
        /\ heights' = b.heights
        /\ score' = b.score
        /\ last' = [op |-> "simulate", piece_type |-> piece_type, x |-> x, rotate |-> rotate,
                    nth |-> nth,
                    res |-> BoardSimulate(Board, piece_type, x, rotate, overflow_checks)]
        /\ UNCHANGED <<overflow_checks, opening, pieces, calls, weights, pc, session, trainer>>

Next ==
    \E inp \in Inputs :
        \/ Apply(inp[1], inp[2], inp[3])
        \/ Simulate(inp[1], inp[2], inp[3])

Spec == Init /\ [][Next]_vars

(***************************************************************************)
(* The game loop of simulate_game and preview (main.rs): draw a piece,     *)
(* evaluate every rotation and column, stop if nothing is legal, otherwise *)
(* sort by weighted score and commit the first.                            *)
(*                                                                         *)
(* Scores are f64 dot products of the 13 features with the weights.  The   *)
(* weight vectors of the model are integers with zero RFB weights, so the  *)
(* products are exact and the RFB terms (finite, times 0.0) add nothing.   *)
(***************************************************************************)
MaxGameLen == 2     \* draws of a game whose every draw may be any piece
LongGameLen == 20   \* draws of a game that only ever draws the I piece

StackHighWeights == [ZeroWeights EXCEPT ![0] = 0 - 1]
PlayWeights == [ZeroWeights EXCEPT ![0] = 1, ![4] = 3]

WeightVectors == {ZeroWeights, StackHighWeights, PlayWeights}

GameDraws == {Rep(PieceTypes, MaxGameLen), Rep({PieceI}, LongGameLen)}

\* for rotate in 0..4 { for x in 0..=(BOARD_WIDTH - p.width) { ... } }
RECURSIVE EnumColumns(_, _, _)
EnumColumns(rotate, x, hi) ==
    IF x > hi THEN <<>> ELSE << <<rotate, x>> >> \o EnumColumns(rotate, x + 1, hi)

RECURSIVE EnumFrom(_, _)
EnumFrom(piece_type, rotate) ==
    IF rotate >= 4 THEN <<>>
    ELSE EnumColumns(rotate, 0, BOARD_WIDTH - Piece(piece_type, rotate).width)
         \o EnumFrom(piece_type, rotate + 1)

Enumeration(piece_type) == EnumFrom(piece_type, 0)

\* features.iter().zip(weights.iter()).map(|(f, w)| f * w).sum::<f64>()
ActionScore(r, w) ==
    SumRange([i \in IntFeatures |-> IF w[i] = 0 THEN 0 ELSE Feature(r, i) * w[i]], 0, 8)

\* possible_actions: (rotate, x, action_score) of every Some result, in
\* the order of the enumeration
RECURSIVE PossibleFrom(_, _, _, _)
PossibleFrom(cands, results, w, k) ==
    IF k > Len(cands) THEN <<>>
    ELSE (IF results[k].kind = "Some"
          THEN << <<cands[k][1], cands[k][2], ActionScore(results[k], w)>> >>
          ELSE <<>>) \o PossibleFrom(cands, results, w, k + 1)

\* possible_actions.sort_by(|a, b| a.2.partial_cmp(&b.2)...): a stable sort
RECURSIVE InsertLast(_, _)
InsertLast(sorted, e) ==
    IF sorted = <<>> THEN <<e>>
    ELSE IF Head(sorted)[3] <= e[3] THEN <<Head(sorted)>> \o InsertLast(Tail(sorted), e)
         ELSE <<e>> \o sorted

\* faulty variant of the sort: an element goes before its equals, so the
\* order of the enumeration is not kept among equal scores
RECURSIVE InsertFirst(_, _)
InsertFirst(sorted, e) ==
    IF sorted = <<>> THEN <<e>>
    ELSE IF Head(sorted)[3] < e[3] THEN <<Head(sorted)>> \o InsertFirst(Tail(sorted), e)
         ELSE <<e>> \o sorted

RECURSIVE SortUnstable(_)
SortUnstable(actions) ==
    IF actions = <<>> THEN <<>>
    ELSE InsertFirst(SortUnstable(SubSeq(actions, 1, Len(actions) - 1)), actions[Len(actions)])

\* the sort of the loop: insertion after the equals keeps the enumeration order
RECURSIVE SortByScore(_)
SortByScore(actions) ==
    IF actions = <<>> THEN <<>>
    ELSE InsertLast(SortByScore(SubSeq(actions, 1, Len(actions) - 1)), actions[Len(actions)])

InitGame ==
    /\ grid = BoardNew.grid
    /\ color_grid = BoardNew.color_grid
    /\ heights = BoardNew.heights
    /\ score = BoardNew.score
    /\ overflow_checks \in BOOLEAN
    /\ opening = <<>>
    /\ pieces \in GameDraws
    /\ calls = 0
    /\ last = [op |-> "new"]
    /\ weights \in WeightVectors
    /\ pc = "running"
    /\ session = NoSession
    /\ trainer = NoTrainer

\* one iteration of the loop, for the piece the random source gives
GameStep(piece_type) ==
    /\ pc = "running"
    /\ pieces # <<>>
    /\ piece_type \in Head(pieces)
    /\ \E cands \in {Enumeration(piece_type)} :
       \E results \in {[k \in 1 .. Len(cands) |->
                          BoardSimulate(Board, piece_type, cands[k][2], cands[k][1],
                                        overflow_checks)]} :
          IF \E k \in 1 .. Len(cands) : results[k].kind = "panic"
          THEN \* a simulate call panicked: the loop never gets to sort or apply
               /\ pc' = "panicked"
               /\ last' = [op |-> "step", piece_type |-> piece_type, applied |-> FALSE,
                           possible_actions |-> <<>>]
               /\ UNCHANGED <<grid, color_grid, heights, score, pieces, calls>>
          ELSE \E possible_actions \in {PossibleFrom(cands, results, weights, 1)} :
               IF possible_actions = <<>>
               THEN \* if possible_actions.is_empty() { break; }
                    /\ pc' = "over"
                    /\ last' = [op |-> "step", piece_type |-> piece_type, applied |-> FALSE,
                                possible_actions |-> possible_actions]
                    /\ UNCHANGED <<grid, color_grid, heights, score, pieces, calls>>
               ELSE \E best_action \in {SortByScore(possible_actions)[1]} :
                    \E r \in {BoardApply(Board, piece_type, best_action[2], best_action[1])} :
                       /\ grid' = r.board.grid
                       /\ color_grid' = r.board.color_grid
                       /\ heights' = r.board.heights
                       /\ score' = r.board.score
                       /\ pc' = IF r.ok THEN "running" ELSE "unwrap_panicked"
                       /\ last' = [op |-> "step", piece_type |-> piece_type, applied |-> TRUE,
                                   possible_actions |-> possible_actions,
                                   best_action |-> best_action,
                                   x |-> best_action[2], rotate |-> best_action[1],
                                   ok |-> r.ok, err |-> r.err,
                                   full_rows |-> r.full_rows, blocks |-> r.blocks]
                       /\ pieces' = Tail(pieces)
                       /\ calls' = IF r.ok THEN calls + 1 ELSE calls
    /\ UNCHANGED <<overflow_checks, opening, weights, session, trainer>>

\* the for loop of simulate_game runs out of pieces: return board.get_score()
GameEnd ==
    /\ pc = "running"
    /\ pieces = <<>>
    /\ pc' = "done"
    /\ UNCHANGED <<grid, color_grid, heights, score, overflow_checks,
                   opening, pieces, calls, last, weights, session, trainer>>

NextGame == (\E piece_type \in PieceTypes : GameStep(piece_type)) \/ GameEnd

SpecGame == InitGame /\ [][NextGame]_vars



(***************************************************************************)
(* The check session (main.rs, check): the engine spawns a child process,  *)
(* sends it piece codes on its stdin and reads a move line and a score     *)
(* line per piece from its stdout.                                         *)
(*                                                                         *)
(* A line is a sequence of one-character strings without its newline, as   *)
(* BufRead::lines yields it.  What the child writes, whether a write to it *)
(* succeeds and whether it is still alive when the loop is left are        *)
(* choices of the environment.                                             *)
(*                                                                         *)
(* Board::check is called by main.rs:472 but is not defined in board.rs;   *)
(* it is taken to be the documented legality test of a placement (column   *)
(* range, then the cells at the resting row), without any write.  The      *)
(* child's rotations stay below 360 degrees: what Board::check does with a *)
(* rotation index above 3 is not known.                                    *)
(***************************************************************************)
MaxPieces == 3     \* pieces.len() and max_pieces (both 1_000_000 in main.rs)

Digits == <<"0", "1", "2", "3", "4", "5", "6", "7", "8", "9">>
IsDigit(ch) == \E d \in 1 .. 10 : Digits[d] = ch
DigitValue(ch) == (CHOOSE d \in 1 .. 10 : Digits[d] = ch) - 1

\* the value of a non-empty sequence of digits
RECURSIVE DecimalValue(_)
DecimalValue(chars) ==
    IF chars = <<>> THEN 0
    ELSE 10 * DecimalValue(SubSeq(chars, 1, Len(chars) - 1)) + DigitValue(chars[Len(chars)])

AllDigits(chars) == chars # <<>> /\ \A k \in 1 .. Len(chars) : IsDigit(chars[k])

\* str::parse::<usize>: an optional "+", then digits
ParseUsize(chars) ==
    LET body == IF chars # <<>> /\ chars[1] = "+" THEN Tail(chars) ELSE chars
    IN  IF AllDigits(body) THEN [ok |-> TRUE, value |-> DecimalValue(body)]
        ELSE [ok |-> FALSE, value |-> 0]

\* str::parse::<i32>: an optional "+" or "-", then digits
ParseI32(chars) ==
    LET signed == chars # <<>> /\ chars[1] \in {"+", "-"}
        body   == IF signed THEN Tail(chars) ELSE chars
    IN  IF AllDigits(body)
        THEN [ok |-> TRUE,
              value |-> IF signed /\ chars[1] = "-" THEN 0 - DecimalValue(body)
                        ELSE DecimalValue(body)]
        ELSE [ok |-> FALSE, value |-> 0]

\* faulty variant of the default: 1 instead of 0
UnwrapOr1(parsed) == IF parsed.ok THEN parsed.value ELSE 1

\* .unwrap_or(0)
UnwrapOr0(parsed) == IF parsed.ok THEN parsed.value ELSE 0

\* faulty variant of the split: every non-blank character is a token
SplitEveryChar(chars) ==
    IF chars = <<>> THEN <<>>
    ELSE [k \in 1 .. Cardinality({j \in 1 .. Len(chars) : chars[j] # " "}) |->
            <<chars[CHOOSE j \in 1 .. Len(chars) :
                       /\ chars[j] # " "
                       /\ Cardinality({i \in 1 .. j : chars[i] # " "}) = k]>>]

\* response.split_whitespace().collect(): the maximal runs of non-blanks
RECURSIVE SplitFrom(_, _, _)
SplitFrom(chars, k, word) ==
    IF k > Len(chars) THEN (IF word = <<>> THEN <<>> ELSE <<word>>)
    ELSE IF chars[k] = " "
         THEN (IF word = <<>> THEN <<>> ELSE <<word>>) \o SplitFrom(chars, k + 1, <<>>)
         ELSE SplitFrom(chars, k + 1, Append(word, chars[k]))

SplitWhitespace(chars) == SplitFrom(chars, 1, <<>>)

\* let piece_types = ['I', 'T', 'O', 'J', 'L', 'S', 'Z'] and the match that
\* turns a code back into a PieceType
PieceCodes == <<"I", "T", "O", "J", "L", "S", "Z">>
CharToPiece(ch) == (CHOOSE k \in 1 .. 7 : PieceCodes[k] = ch) - 1

\* Board::check(piece_type, x, rotate): Ok for a legal placement
BoardCheck(b, piece_type, x, rotate) ==
    LET piece == Piece(piece_type, rotate)
    IN  IF x + piece.width > BOARD_WIDTH THEN [ok |-> FALSE]
        ELSE LET y == Max({0} \cup {b.heights[x + c[2]] - c[1] : c \in ShapeCells(piece)})
             IN  [ok |-> \A c \in ShapeCells(piece) :
                            /\ y + c[1] < BOARD_HEIGHT
                            /\ ~b.grid[y + c[1]][x + c[2]]]

\* what stdout_lines.next() gives
Eof == [kind |-> "eof"]
ReadErr == [kind |-> "err"]
TextLine(chars) == [kind |-> "line", text |-> chars]

\* the move lines and score lines a child may write
MoveLines ==
    { TextLine(<<"0", " ", "0">>),
      TextLine(<<"0", " ", "4">>),
      TextLine(<<"9", "0", " ", " ", "8">>),
      TextLine(<<"x", " ", "4">>),
      TextLine(<<"9", "0", " ", "-", "1">>),
      TextLine(<<"0", " ", "y">>),
      TextLine(<<"0", " ", "1", "2">>),
      TextLine(<<"2", "7", "0">>) }

ScoreLines ==
    { TextLine(<<"0">>),
      TextLine(<<"1", "0", "0">>),
      TextLine(<<"a", "b", "c">>) }

\* the piece vectors of the sessions: rng draws repeated over the length
PieceVector(pattern) == [k \in 1 .. MaxPieces |-> pattern[((k - 1) % Len(pattern)) + 1]]

PieceVectors ==
    { PieceVector(<<"I", "I", "O", "T">>), PieceVector(<<"O", "S", "L", "I">>) }

\* faulty variant of the initial input: the current piece alone
InitialInputCurrent(v) == <<v[1]>>

\* let initial_input = format!("{} {}\n", pieces[0], pieces[1])
InitialInput(v) == <<v[1], " ", v[2]>>

\* check() up to the while loop: spawn, draw the pieces, send the first two
InitCheck ==
    /\ grid = BoardNew.grid
    /\ color_grid = BoardNew.color_grid
    /\ heights = BoardNew.heights
    /\ score = BoardNew.score
    /\ overflow_checks \in BOOLEAN
    /\ opening = <<>>
    /\ pieces = <<>>
    /\ calls = 0
    /\ last = [op |-> "new"]
    /\ weights = ZeroWeights
    /\ pc = "check_loop"
    /\ \E v \in PieceVectors :
          session = [mode |-> "check", pieces |-> v, current_idx |-> 0, next_idx |-> 1,
                     sent |-> <<InitialInput(v)>>, out |-> <<>>, child |-> "spawned"]
    /\ trainer = NoTrainer

\* faulty variant of the comparison: no score is ever a mismatch
ScoreNeverDiffers(board_score, program_score) == FALSE

\* if board.get_score() != program_score
ScoreMismatch(board_score, program_score) == board_score # program_score

\* faulty variant of the clean-up: a child that still runs is left running
ChildLeftAlone(status) == IF status = "exited" THEN "exited" ELSE "unknown"

\* match child.try_wait(): an exited child is reported, a running one is
\* killed and waited for, an error of try_wait is reported
ChildAfterWait(status) ==
    CASE status = "exited" -> "exited"
      [] status = "running" -> "killed"
      [] OTHER -> "unknown"

\* while current_idx < max_pieces && next_idx < pieces.len()
CheckLoopCondition(s) == s.current_idx < MaxPieces /\ s.next_idx < Len(s.pieces)

\* the body of the while loop for one piece: the board and session it
\* leaves, whether it leaves the loop, and what it read and decided
CheckIteration(b, s, response, score_line, written, flushed) ==
    LET current_piece == CharToPiece(s.pieces[s.current_idx + 1])
        Seen == [piece_type |-> current_piece, response |-> response,
                 score_line |-> score_line, parts |-> <<>>, rotation |-> 0,
                 x_position |-> 0, program_score |-> 0, applied |-> FALSE,
                 ok |-> FALSE]
        Break(msg, seen) ==
            [board |-> b, session |-> [s EXCEPT !.out = Append(@, msg)],
             leave |-> "break", seen |-> seen]
    IN  IF response.kind = "err" THEN Break("read_error", Seen)
        ELSE IF response.kind = "eof" THEN Break("exited", Seen)
        ELSE
        LET parts == SplitWhitespace(response.text)
        IN  IF Len(parts) < 2 THEN Break("format_error", [Seen EXCEPT !.parts = parts])
            ELSE
            LET rotation_degrees == UnwrapOr0(ParseUsize(parts[1]))
                x_position == UnwrapOr0(ParseUsize(parts[2]))
                rotation == rotation_degrees \div 90
                Parsed == [Seen EXCEPT !.parts = parts, !.rotation = rotation,
                                       !.x_position = x_position]
            IN  IF score_line.kind = "err" THEN Break("score_read_error", Parsed)
                ELSE IF score_line.kind = "eof" THEN Break("exited_before_score", Parsed)
                ELSE
                LET program_score == UnwrapOr0(ParseI32(score_line.text))
                    Scored == [Parsed EXCEPT !.program_score = program_score]
                IN  IF ~BoardCheck(b, current_piece, x_position, rotation).ok
                    THEN Break("invalid_move", Scored)
                    ELSE
                    LET r == BoardApply(b, current_piece, x_position, rotation)
                        warned == IF ScoreMismatch(r.board.score, program_score)
                                  THEN Append(s.out, "score_mismatch") ELSE s.out
                        moved == [s EXCEPT !.current_idx = @ + 1, !.next_idx = @ + 1,
                                           !.out = warned]
                        line == IF moved.next_idx < Len(s.pieces)
                                THEN <<s.pieces[moved.next_idx + 1]>> ELSE <<"X">>
                        Applied == [Scored EXCEPT !.applied = TRUE, !.ok = r.ok]
                    IN  IF ~r.ok
                        THEN [board |-> b, session |-> s, leave |-> "panic", seen |-> Applied]
                        ELSE IF ~written
                        THEN [board |-> r.board,
                              session |-> [moved EXCEPT !.out = Append(@, "write_failed")],
                              leave |-> "break", seen |-> Applied]
                        ELSE IF ~flushed
                        THEN [board |-> r.board,
                              session |-> [moved EXCEPT !.sent = Append(@, line),
                                                        !.out = Append(@, "flush_failed")],
                              leave |-> "break", seen |-> Applied]
                        ELSE [board |-> r.board,
                              session |-> [moved EXCEPT
                                  !.sent = Append(@, line),
                                  !.out = IF line = <<"X">>
                                          THEN Append(@, "end_marker_sent") ELSE @],
                              leave |-> "continue", seen |-> Applied]

CheckStep(response, score_line, written, flushed) ==
    /\ pc = "check_loop"
    /\ CheckLoopCondition(session)
    /\ \E it \in {CheckIteration(Board, session, response, score_line, written, flushed)} :
        /\ grid' = it.board.grid
        /\ color_grid' = it.board.color_grid
        /\ heights' = it.board.heights
        /\ score' = it.board.score
        /\ session' = it.session
        /\ last' = [it.seen EXCEPT !.response = response] @@ [op |-> "check_step", leave |-> it.leave]
        /\ pc' = CASE it.leave = "panic" -> "unwrap_panicked"
                   [] it.leave = "break" -> "check_wait"
                   [] OTHER -> "check_loop"
    /\ UNCHANGED <<overflow_checks, opening, pieces, calls, weights, trainer>>

\* the while condition is false: the loop is left without another read
CheckLoopEnd ==
    /\ pc = "check_loop"
    /\ ~CheckLoopCondition(session)
    /\ pc' = "check_wait"
    /\ UNCHANGED <<grid, color_grid, heights, score, overflow_checks, opening, pieces,
                   calls, last, weights, session, trainer>>

\* after the loop: child.try_wait(), kill and wait if it still runs, and
\* the two summary lines
CheckClose(status) ==
    /\ pc = "check_wait"
    /\ session' = [session EXCEPT
          !.child = ChildAfterWait(status),
          !.out = @ \o (CASE status = "exited" -> <<"child_exited">>
                          [] status = "running" -> <<"child_running">>
                          [] OTHER -> <<"wait_error">>)
                    \o <<"summary">>]
    /\ pc' = "check_done"
    /\ UNCHANGED <<grid, color_grid, heights, score, overflow_checks, opening, pieces,
                   calls, last, weights, trainer>>

NextCheck ==
    \/ \E response \in MoveLines \cup {Eof, ReadErr},
          score_line \in ScoreLines \cup {Eof, ReadErr},
          written \in BOOLEAN, flushed \in BOOLEAN :
            CheckStep(response, score_line, written, flushed)
    \/ CheckLoopEnd
    \/ \E status \in {"exited", "running", "error"} : CheckClose(status)

SpecCheck == InitCheck /\ [][NextCheck]_vars

(***************************************************************************)
(* The training loop (main.rs, train).  The optimizer is an external       *)
(* library: a call of next_parallel runs one generation (it evaluates the  *)
(* objective, a hundred games per candidate) and returns Some(data) when   *)
(* one of its termination criteria holds, among them the generation limit  *)
(* given to max_generations, and None otherwise.  Whether a generation     *)
(* finds a candidate above the target, and whether another criterion ends  *)
(* the run, are choices of the environment.                                *)
(*                                                                         *)
(* The Ctrl+C handler runs on its own thread and may clear the flag at any *)
(* moment.  The loop reads the flag at two places only; a read and the     *)
(* call of next_parallel that follows it touch no shared state in between, *)
(* so they are one step: the generation is in flight from the read on.     *)
(***************************************************************************)
MaxGenerations == 3     \* largest value of the generations argument

\* faulty variant of the poll: the flag is never seen cleared
CancelledNever(t) == FALSE

\* !running.load(Ordering::SeqCst)
Cancelled(t) == ~t.running

\* if let Some(ref best) = result.overall_best { if best.value > target
AboveTarget(t) == t.exceeded

\* cmaes_states.generation() > generations
PastLimit(t) == t.generation > t.generations

\* train() up to the first call of next_parallel
InitTrain ==
    /\ grid = BoardNew.grid
    /\ color_grid = BoardNew.color_grid
    /\ heights = BoardNew.heights
    /\ score = BoardNew.score
    /\ overflow_checks \in BOOLEAN
    /\ opening = <<>>
    /\ pieces = <<>>
    /\ calls = 0
    /\ last = [op |-> "new"]
    /\ weights = ZeroWeights
    /\ pc = "train_gen"
    /\ session = NoSession
    /\ \E generations \in 1 .. MaxGenerations :
          trainer = [mode |-> "train", generations |-> generations, generation |-> 0,
                     running |-> TRUE, exceeded |-> FALSE, exceeded_at |-> 0,
                     printed |-> "", reason |-> ""]

trainFrame == <<grid, color_grid, heights, score, overflow_checks, opening, pieces,
                calls, last, weights, session>>

\* the handler of ctrlc::set_handler: r.store(false, Ordering::SeqCst)
CtrlC ==
    /\ trainer.mode = "train"
    /\ pc \in {"train_gen", "train_none", "train_some"}
    /\ trainer.running
    /\ trainer' = [trainer EXCEPT !.running = FALSE]
    /\ UNCHANGED <<pc, trainFrame>>

\* cmaes_states.next_parallel() returns: one more generation has run
TrainGeneration(found, other_criterion) ==
    /\ pc = "train_gen"
    /\ \E done \in {trainer.generation + 1} :
        /\ trainer' = [trainer EXCEPT
              !.generation = done,
              !.exceeded = @ \/ found,
              !.exceeded_at = IF ~trainer.exceeded /\ found THEN done ELSE @]
        /\ pc' = IF done >= trainer.generations \/ other_criterion
                 THEN "train_some" ELSE "train_none"
    /\ UNCHANGED trainFrame

\* print_results(...) and break 'main
TrainExit(t, what, why) == [t EXCEPT !.printed = what, !.reason = why]

\* next_parallel returned None: the inner loop reads the flag and either
\* reports and leaves, or calls next_parallel again
TrainAfterNone ==
    /\ pc = "train_none"
    /\ IF Cancelled(trainer)
       THEN /\ trainer' = TrainExit(trainer, "current_best_individual", "cancelled")
            /\ pc' = "train_exit"
       ELSE /\ pc' = "train_gen"
            /\ UNCHANGED trainer
    /\ UNCHANGED trainFrame

\* next_parallel returned Some(result): the flag, the generation count and
\* the target are tested in this order; if none holds the outer loop calls
\* next_parallel again
TrainAfterSome ==
    /\ pc = "train_some"
    /\ IF Cancelled(trainer)
       THEN /\ trainer' = TrainExit(trainer, "current_best_individual", "cancelled")
            /\ pc' = "train_exit"
       ELSE IF PastLimit(trainer)
       THEN /\ trainer' = TrainExit(trainer, "result.current_best", "limit")
            /\ pc' = "train_exit"
       ELSE IF AboveTarget(trainer)
       THEN /\ trainer' = TrainExit(trainer, "result.current_best", "target")
            /\ pc' = "train_exit"
       ELSE /\ pc' = "train_gen"
            /\ UNCHANGED trainer
    /\ UNCHANGED trainFrame

NextTrain ==
    \/ CtrlC
    \/ \E found \in BOOLEAN, other_criterion \in BOOLEAN :
          TrainGeneration(found, other_criterion)
    \/ TrainAfterNone
    \/ TrainAfterSome

SpecTrain == InitTrain /\ [][NextTrain]_vars
(***************************************************************************)
(* Properties.  The vocabulary they share is defined from the grid alone,  *)
(* not from the operators above.                                           *)
(***************************************************************************)
IsApply(l) == l.op = "apply"
IsCommit(l) == l.op = "apply" /\ l.ok
IsSimulate(l) == l.op = "simulate"

CountCells(g) == Cardinality({c \in Rows \X Cols : g[c[1]][c[2]]})
RowIsFull(g, y) == \A x \in Cols : g[y][x]
RowIsEmpty(g, y) == \A x \in Cols : ~g[y][x]
\* the grid g with the cells of a piece added, and its full rows
WithCells(g, cells) == [y \in Rows |-> [x \in Cols |-> g[y][x] \/ <<y, x>> \in cells]]
FullRowSet(g) == {y \in Rows : RowIsFull(g, y)}
FullBelow(g, y) == Cardinality({f \in FullRowSet(g) : f < y})
Bonus(k) == IF k = 0 THEN 0 ELSE <<100, 300, 500, 800>>[k]

\* C1: in every reachable state, for every column c, heights[c] is one more
\* than the largest occupied row of column c, or 0 if the column is empty.
C1_HeightInvariant ==
    \A c \in Cols :
        heights[c] = IF \E r \in Rows : grid[r][c]
                     THEN 1 + Max({r \in Rows : grid[r][c]})
                     ELSE 0

\* a commit has just removed rows and left cells standing
C1_Witness ==
    /\ IsCommit(last) /\ Len(last.full_rows) >= 1
    /\ \E c \in Cols : heights[c] > 0
    /\ \E c \in Cols : heights[c] = 0

\* C2: when simulate returns a result for a placement, the grid and heights
\* it computed its features on are the grid and heights apply leaves for the
\* same placement on the same board.
C2_SimulateAsIfCommitted ==
    [][(IsSimulate(last) /\ last.res.kind = "Some" /\ IsApply(last'))
        => (grid' = last.res.temp_grid /\ heights' = last.res.temp_heights)]_vars

\* C3: a commit removes exactly the full rows: every other row keeps its
\* content and moves down by the number of full rows below it, and the rows
\* vacated at the top are empty.
C3_ClearCompactsDownward ==
    [][IsCommit(last') =>
        \E placed \in {WithCells(grid, last'.blocks)} :
            /\ \A y \in Rows \ FullRowSet(placed) :
                   grid'[y - FullBelow(placed, y)] = placed[y]
            /\ \A y \in Rows :
                   y >= BOARD_HEIGHT - Cardinality(FullRowSet(placed)) => RowIsEmpty(grid', y)]_vars

\* a commit has removed rows 0 and 2: the row between them and the rows
\* above them survive
C3_Witness ==
    /\ IsCommit(last) /\ last.full_rows = <<0, 2>>
    /\ ~RowIsEmpty(grid, 0) /\ ~RowIsEmpty(grid, 1) /\ ~RowIsEmpty(grid, 2)

\* C4: the score never decreases; a failed commit and a commit that clears
\* no row leave it unchanged; a commit that clears k rows, k in 1..4, adds
\* 100, 300, 500, 800.
C4_ScoreMonotone ==
    [][/\ score' >= score
       /\ IsApply(last') /\ ~last'.ok => score' = score
       /\ IsCommit(last') =>
            \E k \in {Cardinality(FullRowSet(WithCells(grid, last'.blocks)))} :
                k <= 4 => score' = score + Bonus(k)]_vars

\* a commit has removed four rows at once
C4_Witness == IsCommit(last) /\ Len(last.full_rows) = 4 /\ score = 800

\* C5: a commit that returns an error leaves grid, color_grid, heights and
\* score as they were.
C5_FailedCommitLeavesBoard ==
    [][(IsApply(last') /\ ~last'.ok) => UNCHANGED boardVars]_vars

\* a commit on a board that holds pieces has failed because the piece did not fit
C5_Witness ==
    /\ IsApply(last) /\ ~last.ok /\ last.err = "Piece doesn't fit"
    /\ CountCells(grid) > 0

\* C6: simulate returns None exactly when apply fails on the same board for
\* the same placement; when simulate returns (cleared, features), apply
\* removes cleared rows and adds the bonus for cleared.
C6_SimulateAgreesWithApply ==
    [][(IsSimulate(last) /\ IsApply(last')) =>
        /\ (last.res.kind = "None") <=> ~last'.ok
        /\ last.res.kind = "Some" =>
             /\ CountCells(grid') =
                    CountCells(grid) + Cardinality(last'.blocks) - last.res.cleared * BOARD_WIDTH
             /\ score' = score + Bonus(last.res.cleared)]_vars

\* a placement that simulate evaluated has been committed and has cleared
\* two rows or more
C6_Witness ==
    /\ opening = <<>> /\ calls = 1 /\ IsCommit(last)
    /\ Len(last.full_rows) >= 2 /\ score = Bonus(Len(last.full_rows))

C8_CellCountConserved ==
    [][IsCommit(last') =>
        \E k \in {Cardinality(FullRowSet(WithCells(grid, last'.blocks)))} :
            CountCells(grid') =
                CountCells(grid)
                + Cardinality(ShapeCells(Piece(last'.piece_type, last'.rotate)))
                - k * BOARD_WIDTH]_vars

\* a commit has removed rows and left cells on the board
C8_Witness == IsCommit(last) /\ Len(last.full_rows) >= 1 /\ CountCells(grid) > 0

\* the legal placements of a piece on the board: those apply accepts
LegalPlacements(b, piece_type) ==
    {rx \in RotationIdx \X Cols : BoardApply(b, piece_type, rx[2], rx[1]).ok}

\* a step of the game loop that has dealt with a piece
IsGameStep == pc = "running" /\ pieces # <<>> /\ (pc' # pc \/ pieces' # pieces)

\* <<rotate, x>> comes no later than <<rotate2, x2>> in the order of the tie-break
NoLater(a, b) == a[1] < b[1] \/ (a[1] = b[1] /\ a[2] <= b[2])

\* C9: the candidates of a step are exactly the legal (rotation, column)
\* pairs of the piece; the placement the loop commits is a candidate of
\* minimum weighted score, and among the candidates of minimum score it is
\* the one with the lowest rotation, then the lowest column.
C9_MinScoreTieBreak ==
    [][(IsGameStep /\ last'.applied) =>
        \E acts \in {last'.possible_actions} :
            /\ {<<acts[k][1], acts[k][2]>> : k \in 1 .. Len(acts)}
                   = LegalPlacements(Board, last'.piece_type)
            /\ \E k \in 1 .. Len(acts) :
                   /\ <<acts[k][1], acts[k][2]>> = <<last'.rotate, last'.x>>
                   /\ grid' = BoardApply(Board, last'.piece_type, acts[k][2], acts[k][1]).board.grid
                   /\ \A j \in 1 .. Len(acts) :
                          \/ acts[j][3] > acts[k][3]
                          \/ acts[j][3] = acts[k][3] /\ NoLater(acts[k], acts[j])]_vars

\* a step has committed a placement on a board that holds cells, where
\* candidates of two rotations tie at the minimum and another scores more
C9_Witness ==
    /\ pc = "running" /\ last.op = "step" /\ last.applied /\ weights # ZeroWeights
    /\ CountCells(grid) > 4
    /\ \E acts \in {last.possible_actions} :
       \E i, j, m \in 1 .. Len(acts) :
           /\ <<acts[i][1], acts[i][2]>> = <<last.rotate, last.x>>
           /\ acts[j][3] = acts[i][3] /\ acts[j][1] # acts[i][1]
           /\ acts[m][3] > acts[i][3]

\* C10: if no (rotation, column) of the piece is legal the loop ends and
\* the board is left as it was; every commit of the loop is for a placement
\* simulate accepted, and it succeeds.
C10_GameOverWithoutCommit ==
    [][/\ pc' # "unwrap_panicked"
       /\ IsGameStep =>
            /\ LegalPlacements(Board, last'.piece_type) = {} =>
                   pc' = "over" /\ ~last'.applied /\ UNCHANGED boardVars
            /\ last'.applied =>
                   /\ last'.ok /\ pc' = "running"
                   /\ BoardSimulate(Board, last'.piece_type, last'.x, last'.rotate,
                                    overflow_checks).kind = "Some"]_vars

\* the loop has ended on a piece that fits nowhere, on a board that holds cells
C10_Witness ==
    /\ pc = "over" /\ last.op = "step" /\ ~last.applied
    /\ CountCells(grid) > 0
    /\ LegalPlacements(Board, last.piece_type) = {}

\* a call of apply or simulate has just been made, and whether it refused
IsCall(l) == IsApply(l) \/ IsSimulate(l)
Refused(l) == IF IsApply(l) THEN ~l.ok ELSE l.res.kind = "None"

\* the resting row as the gravity rule states it
GravityRow(h, piece, x) ==
    Max({0} \cup {h[x + c[2]] - c[1] : c \in ShapeCells(piece)})

\* the cells of the piece with its lowest row at row y
CellsAt(piece, x, y) == {<<y + c[1], x + c[2]>> : c \in ShapeCells(piece)}

\* a cell is obstructed in g: above the board, or on an occupied cell
Obstructed(g, cell) == cell[1] >= BOARD_HEIGHT \/ g[cell[1]][cell[2]]

\* C11: apply and simulate refuse a placement exactly when its column
\* range exceeds the board width, or a cell of the piece at its resting row
\* is at a row >= BOARD_HEIGHT or on an occupied cell; apply names the
\* first cause "Piece out of bounds" and the second "Piece doesn't fit".
C11_TwoFailureCauses ==
    [][IsCall(last') =>
        \E piece \in {Piece(last'.piece_type, last'.rotate)} :
        \E wide \in {last'.x + piece.width > BOARD_WIDTH} :
        \E blocked \in {~wide /\ \E cell \in CellsAt(piece, last'.x,
                                                     GravityRow(heights, piece, last'.x)) :
                                     Obstructed(grid, cell)} :
            /\ Refused(last') <=> (wide \/ blocked)
            /\ IsApply(last') =>
                 /\ wide <=> last'.err = "Piece out of bounds"
                 /\ blocked <=> last'.err = "Piece doesn't fit"]_vars

\* a commit on a board that holds cells has been refused for its column range
C11_Witness ==
    /\ IsApply(last) /\ ~last.ok /\ last.err = "Piece out of bounds"
    /\ CountCells(grid) > 0 /\ last.x + Piece(last.piece_type, last.rotate).width > BOARD_WIDTH

\* C19: for an in-bounds placement the resting row apply and simulate
\* compute is max(0, max of heights[c] - i over the occupied offsets); at
\* that row no cell of the piece is on an occupied cell, and one row lower a
\* cell of the piece would be below row 0 or on an occupied cell.
C19_GravityRule ==
    [][IsCall(last') =>
        \E piece \in {Piece(last'.piece_type, last'.rotate)} :
            last'.x + piece.width <= BOARD_WIDTH =>
            \E y \in {GravityRow(heights, piece, last'.x)} :
                /\ ApplyRequiredY(heights, piece, last'.x) = y
                /\ SimRequiredY(heights, piece, last'.x) = y
                /\ IsCommit(last') => last'.blocks = CellsAt(piece, last'.x, y)
                /\ (IsSimulate(last') /\ last'.res.kind = "Some") =>
                       last'.res.blocks = CellsAt(piece, last'.x, y)
                /\ \A cell \in CellsAt(piece, last'.x, y) :
                       cell[1] < BOARD_HEIGHT => ~grid[cell[1]][cell[2]]
                /\ \/ y = 0
                   \/ \E cell \in CellsAt(piece, last'.x, y - 1) : grid[cell[1]][cell[2]]]_vars

\* a piece has come to rest above row 0 on columns of different heights,
\* leaving an empty cell under one of its cells
C19_Witness ==
    /\ IsCommit(last) /\ last.full_rows = <<>>
    /\ \A b \in last.blocks : b[1] >= 1
    /\ \E b \in last.blocks : ~grid[b[1] - 1][b[2]]
    /\ \E b \in last.blocks : grid[b[1] - 1][b[2]] /\ <<b[1] - 1, b[2]>> \notin last.blocks

\* board_wells as documented: a column strictly lower than its neighbours
\* adds min(neighbours) - height; an edge column has one neighbour
NeighbourHeights(h, c) ==
    {h[n] : n \in {m \in {c - 1, c + 1} : m \in Cols}}

DocumentedWells(h) ==
    SumCols([c \in Cols |->
        IF \A n \in NeighbourHeights(h, c) : h[c] < n
        THEN Min(NeighbourHeights(h, c)) - h[c]
        ELSE 0])

\* C20: feature 6 of a result of simulate is the documented board_wells sum
\* of the heights the features are computed on, edge columns included.
C20_WellsWithEdges ==
    [][(IsSimulate(last') /\ last'.res.kind = "Some") =>
        Feature(last'.res, 5) = DocumentedWells(last'.res.temp_heights)]_vars

(***************************************************************************)
(* Properties of the check session.                                        *)
(***************************************************************************)
\* a step of the session's loop has just dealt with a piece; last' tells
\* what it read and decided
InCheckStep == pc = "check_loop" /\ CheckLoopCondition(session) /\ session' # session

LastOut(s) == s.out[Len(s.out)]
NewOut == SubSeq(session'.out, Len(session.out) + 1, Len(session'.out))
LastSent(s) == s.sent[Len(s.sent)]

\* the number of whitespace-separated tokens of a line
TokenCount(chars) ==
    Cardinality({k \in 1 .. Len(chars) : chars[k] # " " /\ (k = 1 \/ chars[k - 1] = " ")})

\* a token that is no number at all: not an optional sign followed by digits
NotNumeral(chars) ==
    \/ chars = <<>>
    \/ chars \in {<<"+">>, <<"-">>}
    \/ \E k \in 1 .. Len(chars) :
          /\ chars[k] \notin {"0", "1", "2", "3", "4", "5", "6", "7", "8", "9"}
          /\ ~(k = 1 /\ chars[k] \in {"+", "-"})

\* the step read a malformed response, met the end of the child's output
\* or a read error, or was given a move that apply refuses on the board
Malformed(l) == l.response.kind = "line" /\ TokenCount(l.response.text) < 2
Premature(l) ==
    \/ l.response.kind # "line"
    \/ ~Malformed(l) /\ l.score_line.kind # "line"
IllegalMove(l) ==
    /\ ~Malformed(l) /\ ~Premature(l)
    /\ ~BoardApply(Board, l.piece_type, l.x_position, l.rotation).ok
FatalError(l) == Malformed(l) \/ Premature(l) \/ IllegalMove(l)

\* the step applied a move and the child's score differs from the engine's
Mismatch(l) == l.applied /\ score' # l.program_score

\* the step that follows the loop: the child is killed if it still runs
\* and the summary is printed last
ClosesSession ==
    /\ pc' = "check_done"
    /\ LastOut(session') = "summary"
    /\ Contains(NewOut, "child_running") => session'.child = "killed"
    /\ session'.child # "spawned"
    /\ session'.sent = session.sent
    /\ session'.current_idx = session.current_idx
    /\ UNCHANGED boardVars

\* the line the engine sends after its k-th applied move
NextLine(s, k) == IF k + 1 < Len(s.pieces) THEN <<s.pieces[k + 2]>> ELSE <<"X">>

\* C12: a legal move with a score that differs from the engine's is
\* logged as a warning; the move stays applied, the placed-piece count
\* advances, the next line is sent and the loop goes on with the following
\* piece (unless the write to the child fails).
C12_MismatchNonFatal ==
    [][/\ InCheckStep =>
            last'.piece_type = CharToPiece(session.pieces[session.current_idx + 1])
       /\ (InCheckStep /\ Mismatch(last')) =>
            /\ Contains(NewOut, "score_mismatch")
            /\ grid' = BoardApply(Board, last'.piece_type, last'.x_position,
                                  last'.rotation).board.grid
            /\ grid' # grid
            /\ session'.current_idx = session.current_idx + 1
            /\ \/ /\ pc' = "check_loop"
                  /\ session'.sent =
                         Append(session.sent, NextLine(session, session'.current_idx))
               \/ /\ pc' = "check_wait"
                  /\ LastOut(session') \in {"write_failed", "flush_failed"}]_vars

\* a session has gone on to apply a second piece after a score mismatch
\* on its first
C12_Witness ==
    /\ session.mode = "check" /\ session.current_idx = 2
    /\ Len(session.out) >= 1 /\ session.out[1] = "score_mismatch"
    /\ last.op = "check_step" /\ last.applied /\ CountCells(grid) = 8

\* C13, as stated: every protocol error, a score mismatch included, ends
\* the session.
C13_AllErrorsFatal ==
    [][(InCheckStep /\ (FatalError(last') \/ Mismatch(last'))) => pc' = "check_wait"]_vars

\* C13, amended: a malformed response, a premature end of the child's
\* output and an illegal move end the session: the loop is left, nothing
\* more is read or applied, the child is killed if it still runs and the
\* summary is printed; a score mismatch alone does not end the session.
C13_ErrorsFatalButMismatch ==
    [][/\ (InCheckStep /\ FatalError(last')) => pc' = "check_wait"
       /\ (InCheckStep /\ Mismatch(last')
              /\ LastOut(session') \notin {"write_failed", "flush_failed"}) =>
            pc' = "check_loop"
       /\ (pc = "check_wait" /\ pc' # pc) => ClosesSession
       /\ pc = "check_done" => UNCHANGED vars]_vars

\* a session that survived a score mismatch has ended on a premature end
\* of the child's output, and the child, still running, has been killed
C13_Witness ==
    /\ pc = "check_done" /\ session.child = "killed"
    /\ Contains(session.out, "score_mismatch")
    /\ Contains(session.out, "exited_before_score")
    /\ LastOut(session) = "summary"

\* C14: a response with fewer than two tokens, an end of the child's
\* output before the move line or the score line, and an illegal move
\* leave the board, the placed-piece count and the lines sent as they
\* were, and leave the loop; an illegal move is reported, it does not
\* panic; the step after the loop kills a running child and prints the
\* summary.
C14_BadResponseEndsSafely ==
    [][/\ pc' # "unwrap_panicked"
       /\ (InCheckStep /\ FatalError(last')) =>
            /\ UNCHANGED boardVars
            /\ ~last'.applied
            /\ session'.current_idx = session.current_idx
            /\ session'.sent = session.sent
            /\ pc' = "check_wait"
            /\ IllegalMove(last') <=> LastOut(session') = "invalid_move"
            /\ Malformed(last') <=> LastOut(session') = "format_error"
       /\ (InCheckStep /\ ~FatalError(last')) => last'.applied
       /\ (pc = "check_wait" /\ pc' # pc) => ClosesSession]_vars

\* after one applied piece the child has made an illegal move, the session
\* has ended with that piece alone on the board and the child was killed
C14_Witness ==
    /\ pc = "check_done" /\ session.child = "killed"
    /\ Contains(session.out, "invalid_move")
    /\ session.current_idx = 1 /\ CountCells(grid) = 4
    /\ Len(session.sent) = 2

\* C15, as stated: in a session without a bad response, an illegal move
\* or a failed write, the terminator X is what the engine sends exactly
\* when the number of applied pieces has reached the maximum piece count,
\* it is the last line sent, and the loop ends at that count.
C15_TerminatorAtMaximum ==
    [][/\ (session.mode = "check" /\ session'.sent # session.sent
              /\ \A k \in 1 .. Len(session'.out) :
                     session'.out[k] \in {"score_mismatch", "end_marker_sent"}) =>
            /\ LastSent(session') = <<"X">> <=> session'.current_idx = MaxPieces
            /\ LastSent(session) # <<"X">>
       /\ (pc = "check_loop" /\ pc' = "check_wait" /\ ~CheckLoopCondition(session)) =>
            session.current_idx = MaxPieces]_vars

\* a line in which a token that is no number is replaced by 0
ZeroedToken(chars) == IF NotNumeral(chars) THEN <<"0">> ELSE chars
ZeroedMove(parts) == TextLine(ZeroedToken(parts[1]) \o <<" ">> \o ZeroedToken(parts[2]))
ZeroedScore(l) == TextLine(ZeroedToken(l.text))

\* C16: in a response of two tokens or more followed by a score line, a
\* rotation token, a column token or a score line that is no number counts
\* as 0; the step does not stop for it, and the move is applied or refused
\* exactly as it is with 0 in its place.
C16_ParseFailureIsZero ==
    [][(InCheckStep /\ ~Malformed(last') /\ ~Premature(last')) =>
        \E parts \in {SplitWhitespace(last'.response.text)} :
        \E asZero \in {CheckIteration(Board, session, ZeroedMove(parts),
                                      ZeroedScore(last'.score_line), TRUE, TRUE)} :
            /\ NotNumeral(parts[1]) => last'.rotation = 0
            /\ NotNumeral(parts[2]) => last'.x_position = 0
            /\ NotNumeral(last'.score_line.text) => last'.program_score = 0
            /\ last'.applied = asZero.seen.applied
            /\ <<grid', heights', score'>> =
                   <<asZero.board.grid, asZero.board.heights, asZero.board.score>>
            /\ Contains(NewOut, "score_mismatch")
                   = (Len(asZero.session.out) > Len(session.out)
                      /\ asZero.session.out[Len(session.out) + 1] = "score_mismatch")
            /\ ~last'.applied => LastOut(session') = "invalid_move"
            /\ pc' # "unwrap_panicked"]_vars

\* a move whose rotation token and score line are no numbers has been
\* applied as rotation 0 in column 4 with score 0
C16_Witness ==
    /\ last.op = "check_step" /\ last.applied
    /\ last.parts = << <<"x">>, <<"4">> >> /\ last.score_line = TextLine(<<"a", "b", "c">>)
    /\ last.rotation = 0 /\ last.x_position = 4 /\ last.program_score = 0
    /\ heights[4] > 0 /\ ~Contains(session.out, "score_mismatch")

(***************************************************************************)
(* Properties of the training loop.                                        *)
(***************************************************************************)
\* the loop calls next_parallel: a generation starts
GenerationStarts == trainer.mode = "train" /\ pc # "train_gen" /\ pc' = "train_gen"
\* next_parallel returns: the generation in flight ends
GenerationEnds == trainer.mode = "train" /\ pc = "train_gen" /\ pc' # "train_gen"
\* the loop is left
TrainingEnds == trainer.mode = "train" /\ pc # "train_exit" /\ pc' = "train_exit"

\* C17: the flag decides nothing while a generation is in flight: the
\* generation ends as it would have, one generation further and nothing
\* printed; once the flag is cleared no generation starts, and the step
\* after the generation in flight prints the optimizer's current best
\* individual and leaves the loop.
C17_CooperativeCancellation ==
    [][/\ GenerationEnds =>
            /\ trainer'.generation = trainer.generation + 1
            /\ trainer'.printed = "" /\ trainer'.running = trainer.running
            /\ pc' \in {"train_none", "train_some"}
       /\ GenerationStarts => trainer.running
       /\ (trainer.mode = "train" /\ pc \in {"train_none", "train_some"}
              /\ ~trainer.running /\ pc' # pc) =>
            /\ pc' = "train_exit"
            /\ trainer'.printed = "current_best_individual"
            /\ trainer'.generation = trainer.generation
       /\ (TrainingEnds /\ trainer.running) => trainer'.printed = "result.current_best"
       /\ pc = "train_exit" => UNCHANGED vars]_vars

\* a training run of three generations or more has been cancelled after
\* its second generation and has reported
C17_Witness ==
    /\ pc = "train_exit" /\ trainer.reason = "cancelled"
    /\ trainer.printed = "current_best_individual"
    /\ trainer.generation = 2 /\ trainer.generations >= 3

\* C18, as stated: no generation starts once `generations` generations
\* have run, none starts once a generation has produced a candidate above
\* the target, and the best weights are printed when the loop is left.
C18_StopsAtLimitOrTarget ==
    [][/\ GenerationStarts =>
            /\ trainer.generation < trainer.generations
            /\ ~trainer.exceeded
       /\ TrainingEnds => trainer'.printed # ""]_vars

(***************************************************************************)
(* Properties of the features and of the board a game reaches.             *)
(***************************************************************************)
\* diversity as documented: the sum over adjacent column pairs of the
\* absolute difference of their heights
RECURSIVE DocumentedDiversityFrom(_, _)
DocumentedDiversityFrom(h, x) ==
    IF x >= BOARD_WIDTH THEN 0
    ELSE (IF h[x] >= h[x - 1] THEN h[x] - h[x - 1] ELSE h[x - 1] - h[x])
         + DocumentedDiversityFrom(h, x + 1)

DocumentedDiversity(h) == DocumentedDiversityFrom(h, 1)

\* C21: every simulate whose placement is in bounds and fits returns Some,
\* and its feature 9 is the documented diversity of the heights after the
\* placement, also when a column is lower than its left neighbour; the
\* unsigned subtraction does not abort.
C21_DiversityFormula ==
    [][(IsSimulate(last') /\ last'.res.kind # "None") =>
        /\ last'.res.kind = "Some"
        /\ Feature(last'.res, 8) = DocumentedDiversity(last'.res.temp_heights)]_vars

\* C22: feature 1 of a result of simulate is the largest row index of a
\* cell of the piece at its resting position, before any row is removed, and
\* feature 2 is the number of the piece's cells in rows that are full before
\* removal times the number of rows cleared (0 when no row is cleared).
C22_LandingAndErodedPreClear ==
    [][(IsSimulate(last') /\ last'.res.kind = "Some") =>
        \E piece \in {Piece(last'.piece_type, last'.rotate)} :
        \E cells \in {CellsAt(piece, last'.x, GravityRow(heights, piece, last'.x))} :
        \E full \in {FullRowSet(WithCells(grid, cells))} :
            /\ last'.res.cleared = Cardinality(full)
            /\ \E top \in cells :
                /\ \A c \in cells : c[1] <= top[1]
                /\ Feature(last'.res, 0) = top[1]
            /\ Feature(last'.res, 1)
                 = Cardinality({c \in cells : c[1] \in full}) * Cardinality(full)
            /\ full = {} => Feature(last'.res, 1) = 0]_vars

\* an evaluated placement completes three rows with three of its cells
\* and reaches above them
C22_Witness ==
    /\ IsSimulate(last) /\ last.res.kind = "Some"
    /\ last.res.cleared = 3
    /\ Feature(last.res, 1) = 9
    /\ \A y \in 1 .. Len(last.res.full_rows) : last.res.full_rows[y] < Feature(last.res, 0)

\* C23: in every state reached from the empty board by calls of apply, no
\* row of the grid has all BOARD_WIDTH columns occupied.
C23_NoFullRowSurvives == \A y \in Rows : ~RowIsFull(grid, y)

\* a commit has just completed and removed several rows at once, and cells
\* are left on the board
C23_Witness ==
    /\ IsCommit(last) /\ Len(last.full_rows) >= 2
    /\ CountCells(grid) >= 2

\* colour tags agree with occupancy in g, cg
TagsMirror(g, cg) ==
    \A r \in Rows, c \in Cols : (cg[r][c] # NoColor) <=> g[r][c]

\* cg with the cells of a piece tagged with its type
WithTags(cg, cells, piece_type) ==
    [r \in Rows |-> [c \in Cols |-> IF <<r, c>> \in cells THEN piece_type ELSE cg[r][c]]]

\* C24: in every state reached by calls of apply a cell carries a tag
\* exactly when it is occupied; a commit tags the cells it fills with the
\* type of its piece and leaves every other tag as it was; and the rows that
\* survive a clear take their tags with them, the vacated rows having none.
C24_ColourMirrorsGrid ==
    /\ []TagsMirror(grid, color_grid)
    /\ [][IsCommit(last') =>
            \E placed \in {WithCells(grid, last'.blocks)} :
            \E tagged \in {WithTags(color_grid, last'.blocks, last'.piece_type)} :
                /\ \A y \in Rows \ FullRowSet(placed) :
                       color_grid'[y - FullBelow(placed, y)] = tagged[y]
                /\ \A y \in Rows :
                       y >= BOARD_HEIGHT - Cardinality(FullRowSet(placed)) =>
                           \A c \in Cols : color_grid'[y][c] = NoColor]_vars

\* a commit has removed a row under cells of another piece type, and
\* cells of its own piece stay on the board
C24_Witness ==
    /\ IsCommit(last) /\ last.full_rows # <<>>
    /\ \E r \in Rows, c \in Cols : color_grid[r][c] = last.piece_type
    /\ Cardinality({color_grid[r][c] : r \in Rows, c \in Cols} \ {NoColor, last.piece_type}) >= 1

\* C25: for every call of apply or simulate with an in-bounds placement,
\* each cell of the piece at its resting row is at a row >= the height of
\* its column and, when that row is on the board, on an empty cell; the
\* call refuses exactly when a cell is at a row >= BOARD_HEIGHT, so the
\* occupied-cell test never decides.
C25_OccupiedTestNeverDecides ==
    [][IsCall(last') =>
        \E piece \in {Piece(last'.piece_type, last'.rotate)} :
            last'.x + piece.width <= BOARD_WIDTH =>
            \E cells \in {CellsAt(piece, last'.x, ApplyRequiredY(heights, piece, last'.x))} :
                /\ \A cell \in cells : cell[1] >= heights[cell[2]]
                /\ \A cell \in cells : cell[1] < BOARD_HEIGHT => ~grid[cell[1]][cell[2]]
                /\ Refused(last') <=> \E cell \in cells : cell[1] >= BOARD_HEIGHT
                /\ IsApply(last') =>
                     (last'.err = "Piece doesn't fit" <=> \E cell \in cells : cell[1] >= BOARD_HEIGHT)]_vars

\* an in-bounds placement has been refused on a board that holds cells, one
\* of its cells lying on the board and another above it
C25_Witness ==
    /\ IsCall(last) /\ Refused(last)
    /\ CountCells(grid) > 0
    /\ \E piece \in {Piece(last.piece_type, last.rotate)} :
        /\ last.x + piece.width <= BOARD_WIDTH
        /\ \E cells \in {CellsAt(piece, last.x, ApplyRequiredY(heights, piece, last.x))} :
            /\ \E cell \in cells : cell[1] >= BOARD_HEIGHT
            /\ \E cell \in cells : cell[1] < BOARD_HEIGHT /\ cell[1] >= 1

\* a game of simulate_game draws at most num_pieces pieces; the score is an i32
NumPieces == 1000000
MaxI32 == 2147483647

\* C26: a commit clears at most 4 rows, so a commit that clears rows takes
\* one of the four scoring branches and adds a positive bonus; after n
\* successful commits the score is a non-negative multiple of 100 that does
\* not exceed 800 * n; and 800 * num_pieces does not exceed the largest i32.
C26_BoundedScoreGrowth ==
    /\ [](/\ score >= 0
          /\ score % 100 = 0
          /\ score <= 800 * calls
          /\ 800 * NumPieces <= MaxI32)
    /\ [][(IsGameStep /\ last'.applied /\ last'.ok) =>
            /\ Len(last'.full_rows) <= 4
            /\ calls' = calls + 1
            /\ last'.full_rows # <<>> => score' - score \in {100, 300, 500, 800}
            /\ last'.full_rows = <<>> => score' = score]_vars

\* a game has cleared four rows with one commit and then committed again
C26_Witness ==
    /\ pc = "running" /\ last.op = "step" /\ last.applied /\ last.ok
    /\ score = 800 /\ calls >= 11

(***************************************************************************)
(* The lookahead of the check session.                                     *)
(***************************************************************************)
\* the engine is about to read the response for piece current_idx
AwaitsResponse == pc = "check_loop" /\ CheckLoopCondition(session)

\* the lines that carry pieces 0 .. k + 1: the first two on one line, then
\* one piece a line
LookaheadLines(v, k) ==
    << <<v[1], " ", v[2]>> >> \o [i \in 1 .. k |-> <<v[i + 2]>>]

\* C27: whenever the engine waits for the response for piece k it has sent
\* the codes of pieces 0 .. k + 1 in order and nothing else; and a line is
\* sent only by a step that has applied the move it read as legal, one line
\* a step.
C27_OnePieceLookahead ==
    /\ [](AwaitsResponse =>
            session.sent = LookaheadLines(session.pieces, session.current_idx))
    /\ [][(session.mode = "check" /\ session'.sent # session.sent) =>
            /\ last'.applied /\ last'.ok
            /\ BoardCheck(Board, last'.piece_type, last'.x_position, last'.rotation).ok
            /\ session'.current_idx = session.current_idx + 1
            /\ Len(session'.sent) = Len(session.sent) + 1
            /\ SubSeq(session'.sent, 1, Len(session.sent)) = session.sent]_vars

\* the engine waits for the response for piece 1, the first move having
\* been applied and the third piece sent
C27_Witness ==
    /\ AwaitsResponse /\ session.current_idx = 1
    /\ last.op = "check_step" /\ last.applied
    /\ session.sent = << <<session.pieces[1], " ", session.pieces[2]>>, <<session.pieces[3]>> >>

====
